---- MODULE Spec2Model ----
(***************************************************************************)
(* The asynchronous Service Bus base handler                               *)
(* (azure/servicebus/aio/_base_handler_async.py): the handler's link        *)
(* lifecycle (_close_handler, close, _check_live), error classification     *)
(* (_handle_exception) and the retry loop (_do_retryable_operation,         *)
(* _backoff).                                                               *)
(*                                                                          *)
(* One call of _do_retryable_operation is a process with a program counter *)
(* pc; its suspension points are the awaited operation ("inop") and the    *)
(* backoff sleep ("sleep").  close() and _check_live() belong to other     *)
(* tasks and may run at any suspension point.  The session's _lock_expired *)
(* (a comparison of the lock's expiry with the clock) and its              *)
(* auto_renew_error (left by the lock renewer) are read by _check_live     *)
(* alone and are inputs of it.                                              *)
(*                                                                          *)
(* Times are integers (clock ticks); `now` is time.time(), counted from T0  *)
(* at the start of each call: the loop only compares clock readings of one *)
(* call.  None is -1 for the optional numbers (timeout, abs_timeout_time)  *)
(* and 0 for the optional link handle.                                      *)
(***************************************************************************)
EXTENDS Integers, FiniteSets, Sequences, TLC

\* ------------------------------------------------------------------ bounds
MaxRetryTotal == 2     \* retry_total ranges over 0..MaxRetryTotal
MaxTimeout    == 2     \* the caller's timeout is None, 0, MaxTimeout - 1 or MaxTimeout
MaxOpTime     == 1     \* an awaited operation takes no time or MaxOpTime ticks
MaxLinks      == 2     \* links a handler establishes in one behaviour
BackoffFactor == 1     \* retry_backoff_factor
MaxBackoff    == 2     \* retry_backoff_max
MaxScopes     == 2     \* scopes handed to one call of get_token
MaxCalls      == 2     \* calls of get_token on one credential
MaxTasks      == 2     \* tasks that close the handler concurrently
MaxCloseCalls == 2     \* calls of close_async on one link

\* ------------------------------------------------------------------ values
None   == -1           \* Python None, for timeout and abs_timeout_time
NoLink == 0            \* Python None, for self._handler
T0     == 1            \* time.time() when a call starts (an epoch, > 0)

Links == 1..MaxLinks

Timeouts == {None, 0, MaxTimeout - 1, MaxTimeout}

OpTimes == {0, MaxOpTime}

RetryModes == {"fixed", "exponential"}

\* The operations handed to _do_retryable_operation: the subclass's _open
\* (by _open_with_retry), _mgmt_request_response (by
\* _mgmt_request_response_with_retry) and any other operation of a subclass.
Operations == {"_open", "_mgmt_request_response", "operation"}

\* The exception classes the handler tells apart (isinstance tests).
ErrorKinds == {"SessionLockLostError", "ServiceBusConnectionError",
               "OperationTimeoutError", "ServiceBusError"}

\* The exceptions the loop re-raises without classifying them.
Signals == {"StopAsyncIteration", "ImportError"}

\* The retryable flag of each class: a connection error and an operation
\* timeout are retryable, a lost session lock is not, and the transport sets
\* the flag of any other error.
RetryableFlags(kind) ==
    IF kind = "SessionLockLostError" THEN {FALSE}
    ELSE IF kind \in {"ServiceBusConnectionError", "OperationTimeoutError"} THEN {TRUE}
    ELSE BOOLEAN

\* A classified error, as create_servicebus_exception returns it for the
\* failure of attempt number a: its class and its two flags.
ClassifiedErrors(a) ==
    {e \in [kind : ErrorKinds, retryable : BOOLEAN, shutdown_handler : BOOLEAN,
            attempt : {a}] : e.retryable \in RetryableFlags(e.kind)}

NoError == [kind |-> "None", retryable |-> FALSE, shutdown_handler |-> FALSE,
            attempt |-> 0]

\* What an exception object is once raised: class, attempt whose failure it
\* is (0: built by the handler itself), message.
Raised(e) == [kind |-> e.kind, attempt |-> e.attempt, message |-> "original"]

Nothing == [kind |-> "None", attempt |-> 0, message |-> ""]

\* OperationTimeoutError(message=description) of lines 252-259 and 292-299.
RemediationError ==
    [kind |-> "OperationTimeoutError", attempt |-> 0, message |-> "remediation"]

\* ------------------------------------------------------------------ tasks
Tasks == 1..MaxTasks

\* What brings a task into _close_handler: close, __aexit__ (line 171 calls
\* close) and the teardown of _handle_exception (lines 186 and 192).
Closers == {"close", "__aexit__", "_handle_exception"}

\* A task: where it is ("idle": it has not called yet; "close_async":
\* suspended at line 390; "returned", "raised": its latest call has ended),
\* what it called, the link whose close_async it awaits, and for __aexit__
\* whether the body of the `async with` raised.
Task(at, closer, link, body_raised) ==
    [pc |-> at, closer |-> closer, link |-> link, body_raised |-> body_raised]

IdleTask == Task("idle", "", NoLink, FALSE)

\* ------------------------------------------------------------------ exceptions
\* What mgmt_client_request_async raises, by class: an instance of the
\* transport's TIMEOUT_ERROR or any other exception.
TransportErrors == {"TIMEOUT_ERROR", "Exception"}

\* An exception object: its class and its __cause__.
Exc(class, cause) == [class |-> class, cause |-> cause]

NoException == Exc("None", "None")

\* Mutant: the transport's timeout is raised as it is.
MgmtExceptionUnmapped(exp) == Exc(exp, "None")

\* lines 359-362: what _mgmt_request_response raises when
\* mgmt_client_request_async has raised exp
MgmtException(exp) ==
    IF exp = "TIMEOUT_ERROR"
      THEN Exc("OperationTimeoutError", exp)
      ELSE Exc(exp, "None")

\* The exceptions `except Exception` (line 240) can catch from the operation
\* op at the await it is suspended in: from the request of a management
\* operation what lines 359-362 raise, from anything else any exception.
Raisable(op, at) ==
    IF op = "_mgmt_request_response" /\ at = "send"
      THEN {MgmtException(exp) : exp \in TransportErrors}
      ELSE {Exc("Exception", "None")}

\* create_servicebus_exception keeps the class of an exception that is a
\* Service Bus error already: an OperationTimeoutError stays one.
MayClassifyAs(exc, err) ==
    exc.class = "OperationTimeoutError" => err.kind = "OperationTimeoutError"

\* ------------------------------------------------------------------ message
\* The application property that names the associated link.
ASSOCIATEDLINKPROPERTYNAME == "associated-link-name"

\* get_handler_link_name of the transport: the name of the link of the
\* client h (links are named by their number), or the AttributeError (None)
\* of a client that is None or has no link attribute.
get_handler_link_name(h, has_link) == IF h # NoLink /\ has_link THEN h ELSE None

\* Mutant: the link's name is attached whatever keep_alive_associated_link says.
ApplicationPropertiesAlways(keep_alive_associated_link, name) ==
    IF name # None
      THEN {<<ASSOCIATEDLINKPROPERTYNAME, name>>}
      ELSE {}

\* lines 331-339: the application properties of the request, where
\* get_handler_link_name returned name (None: it raised AttributeError)
ApplicationProperties(keep_alive_associated_link, name) ==
    IF keep_alive_associated_link /\ name # None
      THEN {<<ASSOCIATEDLINKPROPERTYNAME, name>>}
      ELSE {}

\* lines 331-347: the message built for a request on the client h, with what
\* the request was given and found
MgmtMsg(keep_alive_associated_link, h, has_link) ==
    [built |-> TRUE,
     keep_alive_associated_link |-> keep_alive_associated_link,
     link_name |-> get_handler_link_name(h, has_link),
     application_properties |->
        ApplicationProperties(keep_alive_associated_link,
                              get_handler_link_name(h, has_link))]

\* No request is in flight.
NoMessage ==
    [built |-> FALSE, keep_alive_associated_link |-> FALSE, link_name |-> None,
     application_properties |-> {}]

\* ------------------------------------------------------------------ credentials
\* The credential classes of lines 42-121, by class name.
Variants == {"ServiceBusSASTokenCredential", "ServiceBusSharedKeyCredential",
             "ServiceBusAzureNamedKeyTokenCredentialAsync",
             "ServiceBusAzureSasTokenCredentialAsync"}

\* The classes whose get_token generates a SAS token for a scope.
KeyVariants == {"ServiceBusSharedKeyCredential",
                "ServiceBusAzureNamedKeyTokenCredentialAsync"}

TokenStrings == {"token1", "token2"}
Expiries     == {T0, T0 + 1}
Policies     == {"policy1", "policy2"}
Keys         == {"key1", "key2"}
ScopeNames   == {"sb://ns/queue", "sb://ns/topic"}

\* *scopes: any number of scopes up to MaxScopes
ScopeLists == UNION {[1..n -> ScopeNames] : n \in 0..MaxScopes}

\* The signature of an AzureSasCredential that expires at se.
Signature(se) == "sr=ns&sig=s&se=" \o ToString(se)

\* lines 55, 77, 93 and 111: token_type, set by __init__
TokenType(variant) ==
    IF variant \in {"ServiceBusSASTokenCredential",
                    "ServiceBusAzureNamedKeyTokenCredentialAsync"}
      THEN "servicebus.windows.net:sastoken"
      ELSE "TOKEN_TYPE_SASTOKEN"

\* A credential object: its class and what __init__ stored. token is the
\* token (line 53) or the wrapped credential's signature (line 110); policy
\* and key are the shared access policy and key (lines 75-76) or the wrapped
\* credential's named_key (line 92).
Credential(variant, tok, expiry, policy, key) ==
    [variant |-> variant, token |-> tok, expiry |-> expiry, policy |-> policy,
     key |-> key, token_type |-> TokenType(variant)]

Credentials ==
    {Credential("ServiceBusSASTokenCredential", t, e, "", "") :
        t \in TokenStrings, e \in Expiries}
    \cup {Credential(v, "", None, p, k) : v \in KeyVariants, p \in Policies, k \in Keys}
    \cup {Credential("ServiceBusAzureSasTokenCredentialAsync", Signature(e), None, "", "") :
            e \in Expiries}

\* AccessToken(token, expires_on)
AccessToken(tok, expires_on) == [token |-> tok, expires_on |-> expires_on]

\* The lifetime _generate_sas_token gives a token (in clock ticks).
TokenLifetime == 1

\* _generate_sas_token of azure/servicebus/_base_handler.py: a SAS token for
\* uri, signed with key under the name policy, that expires TokenLifetime
\* after the time t of the call.
_generate_sas_token(uri, policy, key, t) ==
    AccessToken("SharedAccessSignature sr=" \o uri
                    \o "&sig=hmac(" \o key \o "," \o uri \o "," \o ToString(t + TokenLifetime)
                    \o ")&se=" \o ToString(t + TokenLifetime) \o "&skn=" \o policy,
                t + TokenLifetime)

\* parse_sas_credential of azure/servicebus/_common/utils.py: the signature
\* and the expiry its se= field gives (None without one).
parse_sas_credential(signature) ==
    IF \E e \in Expiries : signature = Signature(e)
      THEN <<signature, CHOOSE e \in Expiries : signature = Signature(e)>>
      ELSE <<signature, None>>

\* What a call of get_token gives its caller.
TokenReturned(a) ==
    [status |-> "returned", token |-> a.token, expires_on |-> a.expires_on,
     error |-> "None", message |-> ""]

TokenRaised(class, message) ==
    [status |-> "raised", token |-> "", expires_on |-> None,
     error |-> class, message |-> message]

NoToken ==
    [status |-> "none", token |-> "", expires_on |-> None, error |-> "None",
     message |-> ""]

\* lines 80-81 and 96-97: `if not scopes: raise ValueError(...)`
ScopeMissing(cred, scps) == cred.variant \in KeyVariants /\ Len(scps) = 0

\* lines 82 and 99: get_token calls _generate_sas_token
GeneratesSasToken(cred, scps) == cred.variant \in KeyVariants /\ Len(scps) > 0

\* Mutant: the token is generated for the last scope given, not the first.
GetTokenResultLastScope(cred, scps, t) ==
    CASE cred.variant = "ServiceBusSASTokenCredential" ->
           TokenReturned(AccessToken(cred.token, cred.expiry))
      [] cred.variant \in KeyVariants ->
           IF ScopeMissing(cred, scps)
             THEN TokenRaised("ValueError", "No token scope provided.")
             ELSE TokenReturned(_generate_sas_token(scps[Len(scps)], cred.policy,
                                                    cred.key, t))
      [] cred.variant = "ServiceBusAzureSasTokenCredentialAsync" ->
           TokenReturned(AccessToken(parse_sas_credential(cred.token)[1],
                                     parse_sas_credential(cred.token)[2]))

\* Mutant: every class asks for a scope, ServiceBusSASTokenCredential too.
GetTokenResultScopeRequired(cred, scps, t) ==
    IF Len(scps) = 0
      THEN TokenRaised("ValueError", "No token scope provided.")
      ELSE CASE cred.variant = "ServiceBusSASTokenCredential" ->
                  TokenReturned(AccessToken(cred.token, cred.expiry))
             [] cred.variant \in KeyVariants ->
                  TokenReturned(_generate_sas_token(scps[1], cred.policy, cred.key, t))
             [] cred.variant = "ServiceBusAzureSasTokenCredentialAsync" ->
                  TokenReturned(AccessToken(parse_sas_credential(cred.token)[1],
                                            parse_sas_credential(cred.token)[2]))

\* Mutant: only ServiceBusSharedKeyCredential asks for a scope; the named key
\* class signs a token for the empty scope.
GetTokenResultNamedKeyUnscoped(cred, scps, t) ==
    CASE cred.variant = "ServiceBusSASTokenCredential" ->
           TokenReturned(AccessToken(cred.token, cred.expiry))
      [] cred.variant = "ServiceBusSharedKeyCredential" ->
           IF ScopeMissing(cred, scps)
             THEN TokenRaised("ValueError", "No token scope provided.")
             ELSE TokenReturned(_generate_sas_token(scps[1], cred.policy, cred.key, t))
      [] cred.variant = "ServiceBusAzureNamedKeyTokenCredentialAsync" ->
           TokenReturned(_generate_sas_token(IF Len(scps) = 0 THEN "" ELSE scps[1],
                                             cred.policy, cred.key, t))
      [] cred.variant = "ServiceBusAzureSasTokenCredentialAsync" ->
           TokenReturned(AccessToken(parse_sas_credential(cred.token)[1],
                                     parse_sas_credential(cred.token)[2]))

\* lines 57-64, 79-82, 95-99 and 113-121: get_token(*scps) of the credential
\* cred at time t
GetTokenResult(cred, scps, t) ==
    CASE cred.variant = "ServiceBusSASTokenCredential" ->
           TokenReturned(AccessToken(cred.token, cred.expiry))
      [] cred.variant \in KeyVariants ->
           IF ScopeMissing(cred, scps)
             THEN TokenRaised("ValueError", "No token scope provided.")
             ELSE TokenReturned(_generate_sas_token(scps[1], cred.policy, cred.key, t))
      [] cred.variant = "ServiceBusAzureSasTokenCredentialAsync" ->
           TokenReturned(AccessToken(parse_sas_credential(cred.token)[1],
                                     parse_sas_credential(cred.token)[2]))

\* ------------------------------------------------------------------ state
VARIABLES
    \* BaseHandler
    handler,            \* self._handler: NoLink or the link held
    running,            \* self._running
    shutdown,           \* self._shutdown.is_set()
    \* self._session
    session,            \* TRUE: session-bound handler; FALSE: no _session / None
    lock_lost,          \* self._session._lock_lost
    \* self._config
    retry_total, retry_mode, retry_backoff_factor, retry_backoff_max,
    \* time.time()
    now,
    \* the call of _do_retryable_operation
    pc,                 \* "idle", "inop", "sleep", "done"
    operation,          \* the operation retried
    operation_requires_timeout, require_last_exception, timeout,
    abs_timeout_time, retried_times, last_exception,
    kwargs,             \* kwargs["timeout"], kwargs["last_exception"]
    error,              \* the classified error of the latest failed attempt
    exception,          \* the exception the latest failed attempt raised
    mgmt_msg,           \* the message of the management request in flight
    outcome,            \* how the call ended
    \* observation
    links,              \* links established so far
    close_async_calls,  \* per link, the calls of its close_async
    invocations,        \* calls of the operation in this call of the loop
    sleeps,             \* asyncio.sleep calls in this call of the loop
    slept,              \* the delay of the latest asyncio.sleep
    backoff_calls,      \* calls of _backoff in this call of the loop
    event,              \* the latest handler operation and its result
    \* self._credential
    credential,         \* the credential object, as constructed
    scopes,             \* *scopes of the latest call of get_token
    token,              \* what that call returned or raised
    get_token_calls,    \* calls of get_token so far
    generated,          \* calls of _generate_sas_token so far
    \* the tasks that call close, __aexit__ or _handle_exception's teardown
    tasks               \* per task, where it is in _close_handler

handlerVars == <<handler, running, shutdown>>
sessionVars == <<session, lock_lost>>
configVars  == <<retry_total, retry_mode, retry_backoff_factor, retry_backoff_max>>
callVars    == <<pc, operation, operation_requires_timeout, require_last_exception,
                 timeout, abs_timeout_time, retried_times, last_exception, kwargs,
                 error, exception, mgmt_msg, outcome>>
obsVars     == <<links, close_async_calls, invocations, sleeps, slept,
                 backoff_calls>>
credVars    == <<credential, scopes, token, get_token_calls, generated>>

vars == <<handlerVars, sessionVars, configVars, now, callVars, obsVars, event,
          credVars, tasks>>


\* ------------------------------------------------------------------ helpers
Min(a, b) == IF a <= b THEN a ELSE b

\* Python truthiness of an optional number: None and 0 are false.
Truthy(x) == x # None /\ x # 0

RECURSIVE Pow2(_)
Pow2(n) == IF n = 0 THEN 1 ELSE 2 * Pow2(n - 1)

\* _get_backoff_time of azure/servicebus/_base_handler.py: the factor, doubled
\* per retry in exponential mode, clamped to backoff_max.
_get_backoff_time(mode, backoff_factor, backoff_max, retried) ==
    Min(backoff_max,
        IF mode = "fixed" THEN backoff_factor ELSE backoff_factor * Pow2(retried))

\* Mutant: the deadline is set whenever a timeout is given, flag or no flag.
AbsTimeoutTimeIgnoresFlag(t, requires, tmo) ==
    IF Truthy(tmo) THEN t + tmo ELSE None

\* line 227: abs_timeout_time
AbsTimeoutTime(t, requires, tmo) ==
    IF requires /\ Truthy(tmo) THEN t + tmo ELSE None

\* Mutant: every attempt is handed the whole timeout, not what is left of it.
AttemptKwargsFullTimeout(kw, requires, abs, t) ==
    IF requires /\ Truthy(abs) THEN [kw EXCEPT !.timeout = abs - T0] ELSE kw

\* lines 231-233: the kwargs the next attempt is called with
AttemptKwargs(kw, requires, abs, t) ==
    IF requires /\ Truthy(abs) THEN [kw EXCEPT !.timeout = abs - t] ELSE kw

\* Mutant: the loop is entered only while retries are left.
LoopConditionStrict(retried, max_retries) == retried < max_retries

\* line 229: the loop condition
LoopCondition(retried, max_retries) == retried <= max_retries

\* Mutant: the retries count as exhausted one failure early.
ExhaustedOffByOne(retried, max_retries) == retried >= max_retries

\* Mutant: one more failure is retried before the retries count as exhausted.
ExhaustedLate(retried, max_retries) == retried > max_retries + 1

\* line 245: the retries are exhausted
Exhausted(retried, max_retries) == retried > max_retries

\* Mutant: _backoff does not compare the end of the delay with the deadline.
MaySleepIgnoresDeadline(backoff, backoff_max, abs, t) == backoff <= backoff_max

\* Mutant: a delay that ends exactly at the deadline is not slept.
MaySleepStrict(backoff, backoff_max, abs, t) ==
    backoff <= backoff_max /\ (abs = None \/ backoff + t < abs)

\* lines 276-278: the backoff delay may be slept
MaySleep(backoff, backoff_max, abs, t) ==
    backoff <= backoff_max /\ (abs = None \/ backoff + t <= abs)

\* `raise` of an exception as it is.
Propagated(e) ==
    [status |-> "raised", value |-> 0, error |-> Raised(e), cause |-> Nothing]

\* Mutant: the remediation error is raised without its cause (`from None`).
TerminalFailureCauseless(last) ==
    IF last.kind = "OperationTimeoutError"
      THEN [status |-> "raised", value |-> 0, error |-> RemediationError,
            cause |-> Nothing]
      ELSE [status |-> "raised", value |-> 0, error |-> Raised(last),
            cause |-> Nothing]

\* Mutant: the exhausted loop re-raises an OperationTimeoutError as it is.
TerminalFailureUnwrapped(last) == Propagated(last)

\* lines 251-261 and 291-301: the terminal failure of the loop. An
\* OperationTimeoutError is replaced by a new one with the remediation text,
\* raised from the original; any other error is raised itself.
TerminalFailure(last) ==
    IF last.kind = "OperationTimeoutError"
      THEN [status |-> "raised", value |-> 0, error |-> RemediationError,
            cause |-> Raised(last)]
      ELSE [status |-> "raised", value |-> 0, error |-> Raised(last),
            cause |-> Nothing]

Returned(a) ==
    [status |-> "returned", value |-> a, error |-> Nothing, cause |-> Nothing]

Pending == [status |-> "none", value |-> 0, error |-> Nothing, cause |-> Nothing]

\* Mutant: the short-circuit leaves out SessionLockLostError.
SessionShortCircuitConnectionOnly(err) ==
    session /\ running /\ err.kind = "ServiceBusConnectionError"

\* Mutant: the short-circuit leaves out ServiceBusConnectionError.
SessionShortCircuitLockLostOnly(err) ==
    session /\ running /\ err.kind = "SessionLockLostError"

\* Mutant: the short-circuit does not test self._running.
SessionShortCircuitNotRunning(err) ==
    /\ session
    /\ err.kind \in {"SessionLockLostError", "ServiceBusConnectionError"}

\* Mutant: the short-circuit does not need a session.
SessionShortCircuitNoSessionTest(err) ==
    /\ running
    /\ err.kind \in {"SessionLockLostError", "ServiceBusConnectionError"}

\* line 184: the session short-circuit of _handle_exception (a missing
\* _session attribute is the AttributeError of lines 188-189: session = FALSE)
SessionShortCircuit(err) ==
    /\ session
    /\ running
    /\ err.kind \in {"SessionLockLostError", "ServiceBusConnectionError"}

\* Mutant: _handle_exception returns a non-retryable error for retry.
HandleExceptionRaisesSessionOnly(err) == SessionShortCircuit(err)

\* lines 187 and 193-194: _handle_exception raises the error
HandleExceptionRaises(err) ==
    SessionShortCircuit(err) \/ ~err.retryable

\* Mutant: only an error returned for retry closes the link.
HandleExceptionClosesRetryableOnly(err) ==
    SessionShortCircuit(err) \/ (err.shutdown_handler /\ err.retryable)

\* Mutant: every classified error closes the link.
HandleExceptionClosesAlways(err) == TRUE

\* lines 186 and 191-192: _handle_exception closes the link
HandleExceptionCloses(err) ==
    SessionShortCircuit(err) \/ err.shutdown_handler

\* Mutant: _check_live does not look at _lock_lost.
CheckLiveResultIgnoresLockLost(lock_expired) ==
    IF shutdown THEN "ValueError"
    ELSE IF session /\ lock_expired THEN "SessionLockLostError"
    ELSE "ok"

\* Mutant: _check_live looks at the session before the shutdown flag.
CheckLiveResultSessionFirst(lock_expired) ==
    IF session /\ (lock_lost \/ lock_expired) THEN "SessionLockLostError"
    ELSE IF shutdown THEN "ValueError"
    ELSE "ok"

\* Mutant: _check_live looks at the session's _lock_lost mark first.
CheckLiveResultLockLostFirst(lock_expired) ==
    IF session /\ lock_lost THEN "SessionLockLostError"
    ELSE IF shutdown THEN "ValueError"
    ELSE IF session /\ lock_expired THEN "SessionLockLostError"
    ELSE "ok"

\* lines 201-219: the exception _check_live raises ("ok": none), with
\* self._session._lock_expired read as lock_expired
CheckLiveResult(lock_expired) ==
    IF shutdown THEN "ValueError"
    ELSE IF session /\ (lock_lost \/ lock_expired) THEN "SessionLockLostError"
    ELSE "ok"

\* A call of close or _check_live: its result, the error the exception
\* raised carries, what _check_live read from the session, and whether the
\* call follows a call of close with nothing in between.
Event(op, result, err, lock_expired, auto_renew_error, again) ==
    [op |-> op, result |-> result, error |-> err,
     lock_expired |-> lock_expired, auto_renew_error |-> auto_renew_error,
     again |-> again]

\* Any other step.
LoopEvent == Event("", "", "None", FALSE, "None", FALSE)

AutoRenewErrors == {"None", "AutoLockRenewFailed"}

\* ------------------------------------------------------------------ Init
Init ==
    /\ handler = NoLink
    /\ running = FALSE
    /\ shutdown = FALSE
    /\ session \in BOOLEAN
    /\ lock_lost = FALSE
    /\ retry_total \in 0..MaxRetryTotal
    /\ retry_mode \in RetryModes
    /\ retry_backoff_factor = BackoffFactor
    /\ retry_backoff_max = MaxBackoff
    /\ now = T0
    /\ pc = "idle"
    /\ operation = "operation"
    /\ operation_requires_timeout = FALSE
    /\ require_last_exception = FALSE
    /\ timeout = None
    /\ abs_timeout_time = None
    /\ retried_times = 0
    /\ last_exception = NoError
    /\ kwargs = [timeout |-> None, last_exception |-> NoError]
    /\ error = NoError
    /\ exception = NoException
    /\ mgmt_msg = NoMessage
    /\ outcome = Pending
    /\ links = 0
    /\ close_async_calls = [l \in Links |-> 0]
    /\ invocations = 0
    /\ sleeps = 0
    /\ slept = 0
    /\ backoff_calls = 0
    /\ event = LoopEvent
    /\ credential = Credential("ServiceBusSharedKeyCredential", "", None,
                               "policy1", "key1")
    /\ scopes = <<>>
    /\ token = NoToken
    /\ get_token_calls = 0
    /\ generated = 0
    /\ tasks = [t \in Tasks |-> IdleTask]

\* ------------------------------------------------------------------ link
\* Mutant: _close_handler does not forget the link it closed.
_close_handler_keeps_link ==
    /\ IF handler # NoLink
         THEN close_async_calls' = [close_async_calls EXCEPT ![handler] = @ + 1]
         ELSE UNCHANGED close_async_calls
    /\ handler' = handler
    /\ running' = FALSE

\* lines 388-392
_close_handler ==
    /\ IF handler # NoLink
         THEN /\ close_async_calls' = [close_async_calls EXCEPT ![handler] = @ + 1]
              /\ handler' = NoLink
         ELSE UNCHANGED <<close_async_calls, handler>>
    /\ running' = FALSE

\* Mutant: close flips the shutdown flag.
ShutdownToggle == shutdown' = ~shutdown

\* line 403: self._shutdown.set()
ShutdownSet == shutdown' = TRUE

\* lines 394-403
close ==
    /\ pc # "done"
    /\ _close_handler
    /\ ShutdownSet
    /\ event' = Event("close", "ok", "None", FALSE, "None", event.op = "close")
    /\ UNCHANGED <<credVars, tasks, sessionVars, configVars, now, callVars, links, invocations,
                   sleeps, slept, backoff_calls>>

\* lines 198-219: _check_live, where the session (if any) has _lock_expired =
\* lock_expired and auto_renew_error = auto_renew_error. Line 217 hands the
\* latter to the SessionLockLostError.
_check_live(lock_expired, auto_renew_error) ==
    /\ pc # "done"
    /\ ~session => ~lock_expired /\ auto_renew_error = "None"
    /\ event' = Event("_check_live", CheckLiveResult(lock_expired),
                      IF CheckLiveResult(lock_expired) = "SessionLockLostError"
                        THEN auto_renew_error ELSE "None",
                      lock_expired, auto_renew_error, FALSE)
    /\ UNCHANGED <<credVars, tasks, handlerVars, sessionVars, configVars, now, callVars, obsVars>>

\* The subclass's _open (line 383 is its abstract stand-in): establishes the
\* link and sets running; nothing to do on a running handler.
_open ==
    IF running
      THEN UNCHANGED <<handler, running, links>>
      ELSE /\ links < MaxLinks
           /\ links' = links + 1
           /\ handler' = links + 1
           /\ running' = TRUE

\* Mutant: _handle_exception does not close the link.
_handle_exception_keeps_link(err) ==
    /\ error' = err
    /\ lock_lost' = IF SessionShortCircuit(err) THEN TRUE ELSE lock_lost
    /\ UNCHANGED <<handler, running, close_async_calls>>

\* ------------------------------------------------------------------ errors
\* lines 173-196: _handle_exception, for the error err that
\* create_servicebus_exception returned. Whether it raises err or returns it
\* is HandleExceptionRaises(err).
_handle_exception(err) ==
    /\ error' = err
    /\ lock_lost' = IF SessionShortCircuit(err) THEN TRUE ELSE lock_lost
    /\ IF HandleExceptionCloses(err)
         THEN _close_handler
         ELSE UNCHANGED <<handler, running, close_async_calls>>

\* ------------------------------------------------------------------ retry
\* lines 229-234: the head of the loop, the call of the operation included.
\* Leaving the loop by its condition returns None (value 0).
NextAttempt(retried, kw, requires, abs, t, inv) ==
    IF LoopCondition(retried, retry_total)
      THEN /\ kwargs' = AttemptKwargs(kw, requires, abs, t)
           /\ invocations' = inv + 1
           /\ pc' = "inop"
           /\ outcome' = Pending
      ELSE /\ kwargs' = kw
           /\ invocations' = inv
           /\ pc' = "done"
           /\ outcome' = Returned(0)

\* Mutant: _backoff computes the delay itself, without the clamp, and does
\* not compare it with retry_backoff_max.
_backoff_unclamped(retried, last, abs, t) ==
    LET backoff == IF retry_mode = "fixed"
                     THEN retry_backoff_factor
                     ELSE retry_backoff_factor * Pow2(retried)
    IN  IF abs = None \/ backoff + t <= abs
          THEN /\ pc' = "sleep"
               /\ slept' = backoff
               /\ sleeps' = sleeps + 1
               /\ backoff_calls' = backoff_calls + 1
               /\ outcome' = outcome
          ELSE /\ pc' = "done"
               /\ outcome' = TerminalFailure(last)
               /\ UNCHANGED <<sleeps, slept>>
               /\ backoff_calls' = backoff_calls + 1

\* Mutant: _backoff does not await the sleep it decided on.
_backoff_without_sleep(retried, last, abs, t) ==
    LET backoff == _get_backoff_time(retry_mode, retry_backoff_factor,
                                     retry_backoff_max, retried)
    IN  IF MaySleep(backoff, retry_backoff_max, abs, t)
          THEN /\ pc' = "sleep"
               /\ outcome' = outcome
               /\ UNCHANGED <<sleeps, slept>>
               /\ backoff_calls' = backoff_calls + 1
          ELSE /\ pc' = "done"
               /\ outcome' = TerminalFailure(last)
               /\ UNCHANGED <<sleeps, slept>>
               /\ backoff_calls' = backoff_calls + 1

\* lines 262-301: _backoff(retried_times, last_exception, abs_timeout_time)
\* at time t
_backoff(retried, last, abs, t) ==
    LET backoff == _get_backoff_time(retry_mode, retry_backoff_factor,
                                     retry_backoff_max, retried)
    IN  IF MaySleep(backoff, retry_backoff_max, abs, t)
          THEN /\ pc' = "sleep"
               /\ slept' = backoff
               /\ sleeps' = sleeps + 1
               /\ backoff_calls' = backoff_calls + 1
               /\ outcome' = outcome
          ELSE /\ pc' = "done"
               /\ outcome' = TerminalFailure(last)
               /\ UNCHANGED <<sleeps, slept>>
               /\ backoff_calls' = backoff_calls + 1

\* The clock is read only by a call that has a deadline (lines 227, 232 and
\* 277): without one the time an await takes is not told apart.
Elapses(d) == abs_timeout_time = None => d = 0

\* After a failed attempt the clock is read again by _backoff alone (line 277).
ElapsesBeforeBackoff(err, d) ==
    (\/ abs_timeout_time = None
     \/ HandleExceptionRaises(err)
     \/ Exhausted(retried_times + 1, retry_total)) => d = 0

\* lines 221-234: a call of _do_retryable_operation, up to its first await.
\* _open_with_retry (line 386) passes no timeout and no flag;
\* _mgmt_request_response_with_retry (lines 372-380) passes its timeout and
\* operation_requires_timeout=True. Without the flag line 227 does not read
\* the timeout: None and one number stand for every value of it.
StartCall(op, tmo, requires, needs_last) ==
    /\ pc = "idle"
    /\ op = "_open" => tmo = None /\ ~requires /\ ~needs_last
    /\ op = "_mgmt_request_response" => requires /\ ~needs_last
    /\ ~requires => tmo \in {None, MaxTimeout}
    /\ operation' = op
    /\ timeout' = tmo
    /\ operation_requires_timeout' = requires
    /\ require_last_exception' = needs_last
    /\ now' = T0
    /\ retried_times' = 0
    /\ abs_timeout_time' = AbsTimeoutTime(T0, requires, tmo)
    /\ last_exception' = NoError
    /\ error' = NoError
    /\ exception' = NoException
    /\ sleeps' = 0
    /\ slept' = 0
    /\ backoff_calls' = 0
    /\ NextAttempt(0, [timeout |-> None, last_exception |-> NoError], requires,
                   AbsTimeoutTime(T0, requires, tmo), T0, 0)
    /\ event' = LoopEvent
    /\ UNCHANGED <<credVars, tasks, mgmt_msg, handlerVars, sessionVars, configVars, links, close_async_calls>>

\* line 234: the operation returns. The subclass's _open has established the
\* link. (The clock is not read after a return or a propagated signal.)
OpReturns ==
    /\ pc = "inop"
    /\ operation # "_mgmt_request_response"
    /\ IF operation = "_open" THEN _open ELSE UNCHANGED <<handler, running, links>>
    /\ now' = now
    /\ pc' = "done"
    /\ outcome' = Returned(invocations)
    /\ event' = LoopEvent
    /\ UNCHANGED <<credVars, tasks, mgmt_msg, shutdown, sessionVars, configVars, operation,
                   operation_requires_timeout, require_last_exception, timeout,
                   abs_timeout_time, retried_times, last_exception, kwargs, error, exception,
                   close_async_calls, invocations, sleeps, slept, backoff_calls>>

\* line 329: _mgmt_request_response has opened the handler, after d ticks
MgmtOpened(d, keep_alive_associated_link, has_link) ==
    /\ pc = "inop"
    /\ Elapses(d)
    /\ operation = "_mgmt_request_response"
    /\ _open
    /\ now' = now + d
    /\ pc' = "send"
    /\ event' = LoopEvent
    /\ mgmt_msg' = MgmtMsg(keep_alive_associated_link, handler', has_link)
    /\ UNCHANGED <<credVars, tasks, shutdown, sessionVars, configVars, operation,
                   operation_requires_timeout, require_last_exception, timeout,
                   abs_timeout_time, retried_times, last_exception, kwargs, error, exception,
                   outcome, close_async_calls, invocations, sleeps, slept, backoff_calls>>

\* lines 350-358: the management response arrives
MgmtResponds ==
    /\ pc = "send"
    /\ now' = now
    /\ pc' = "done"
    /\ outcome' = Returned(invocations)
    /\ event' = LoopEvent
    /\ mgmt_msg' = NoMessage
    /\ UNCHANGED <<credVars, tasks, handlerVars, sessionVars, configVars, operation,
                   operation_requires_timeout, require_last_exception, timeout,
                   abs_timeout_time, retried_times, last_exception, kwargs, error, exception,
                   obsVars>>

\* Mutant: the signal is caught by `except Exception` and handled as an error
\* that shuts the handler down.
OpRaisesSignalTearsDown(sig) ==
    /\ pc \in {"inop", "send"}
    /\ now' = now
    /\ pc' = "done"
    /\ outcome' = Propagated([kind |-> sig, attempt |-> invocations])
    /\ event' = LoopEvent
    /\ _close_handler
    /\ mgmt_msg' = NoMessage
    /\ UNCHANGED <<credVars, tasks, shutdown, sessionVars, configVars, operation,
                   operation_requires_timeout, require_last_exception, timeout,
                   abs_timeout_time, retried_times, last_exception, kwargs, error, exception,
                   links, invocations, sleeps, slept, backoff_calls>>

\* lines 235-239: the operation raises StopAsyncIteration or ImportError
OpRaisesSignal(sig) ==
    /\ pc \in {"inop", "send"}
    /\ now' = now
    /\ pc' = "done"
    /\ outcome' = Propagated([kind |-> sig, attempt |-> invocations])
    /\ event' = LoopEvent
    /\ mgmt_msg' = NoMessage
    /\ UNCHANGED <<credVars, tasks, handlerVars, sessionVars, configVars, operation,
                   operation_requires_timeout, require_last_exception, timeout,
                   abs_timeout_time, retried_times, last_exception, kwargs, error, exception,
                   obsVars>>

\* Mutant: _backoff is called, and computes its delay, before the retry count
\* is compared with retry_total.
OpRaisesBackoffFirst(err, d) ==
    /\ pc \in {"inop", "send"}
    /\ ElapsesBeforeBackoff(err, d)
    /\ now' = now + d
    /\ \E exc \in Raisable(operation, pc) :
          /\ MayClassifyAs(exc, err)
          /\ exception' = exc
    /\ _handle_exception(err)
    /\ IF HandleExceptionRaises(err)
         THEN /\ pc' = "done"
              /\ outcome' = Propagated(err)
              /\ UNCHANGED <<last_exception, kwargs, retried_times, sleeps, slept, backoff_calls>>
         ELSE /\ last_exception' = err
              /\ kwargs' = IF require_last_exception
                             THEN [kwargs EXCEPT !.last_exception = err]
                             ELSE kwargs
              /\ retried_times' = retried_times + 1
              /\ IF Exhausted(retried_times + 1, retry_total)
                   THEN /\ pc' = "done"
                        /\ outcome' = TerminalFailure(err)
                        /\ backoff_calls' = backoff_calls + 1
                        /\ UNCHANGED <<sleeps, slept>>
                   ELSE _backoff(retried_times + 1, err, abs_timeout_time, now + d)
    /\ event' = LoopEvent
    /\ mgmt_msg' = NoMessage
    /\ UNCHANGED <<credVars, tasks, shutdown, session, configVars,
                   operation, operation_requires_timeout, require_last_exception,
                   timeout, abs_timeout_time, links, invocations>>

\* Mutant: kwargs["last_exception"] is given the error of the attempt before
\* the one that has just failed.
OpRaisesStaleLastException(err, d) ==
    /\ pc \in {"inop", "send"}
    /\ ElapsesBeforeBackoff(err, d)
    /\ now' = now + d
    /\ \E exc \in Raisable(operation, pc) :
          /\ MayClassifyAs(exc, err)
          /\ exception' = exc
    /\ _handle_exception(err)
    /\ IF HandleExceptionRaises(err)
         THEN /\ pc' = "done"
              /\ outcome' = Propagated(err)
              /\ UNCHANGED <<last_exception, kwargs, retried_times, sleeps, slept, backoff_calls>>
         ELSE /\ last_exception' = err
              /\ kwargs' = IF require_last_exception
                             THEN [kwargs EXCEPT !.last_exception = last_exception]
                             ELSE kwargs
              /\ retried_times' = retried_times + 1
              /\ IF Exhausted(retried_times + 1, retry_total)
                   THEN /\ pc' = "done"
                        /\ outcome' = TerminalFailure(err)
                        /\ UNCHANGED <<sleeps, slept, backoff_calls>>
                   ELSE _backoff(retried_times + 1, err, abs_timeout_time, now + d)
    /\ event' = LoopEvent
    /\ mgmt_msg' = NoMessage
    /\ UNCHANGED <<credVars, tasks, shutdown, session, configVars,
                   operation, operation_requires_timeout, require_last_exception,
                   timeout, abs_timeout_time, links, invocations>>

\* lines 240-266: the operation raises any other exception after d ticks,
\* which create_servicebus_exception classifies as err
OpRaises(err, d) ==
    /\ pc \in {"inop", "send"}
    /\ ElapsesBeforeBackoff(err, d)
    /\ now' = now + d
    /\ \E exc \in Raisable(operation, pc) :
          /\ MayClassifyAs(exc, err)
          /\ exception' = exc
    /\ _handle_exception(err)
    /\ IF HandleExceptionRaises(err)
         THEN /\ pc' = "done"
              /\ outcome' = Propagated(err)
              /\ UNCHANGED <<last_exception, kwargs, retried_times, sleeps, slept, backoff_calls>>
         ELSE /\ last_exception' = err
              /\ kwargs' = IF require_last_exception
                             THEN [kwargs EXCEPT !.last_exception = err]
                             ELSE kwargs
              /\ retried_times' = retried_times + 1
              /\ IF Exhausted(retried_times + 1, retry_total)
                   THEN /\ pc' = "done"
                        /\ outcome' = TerminalFailure(err)
                        /\ UNCHANGED <<sleeps, slept, backoff_calls>>
                   ELSE _backoff(retried_times + 1, err, abs_timeout_time, now + d)
    /\ event' = LoopEvent
    /\ mgmt_msg' = NoMessage
    /\ UNCHANGED <<credVars, tasks, shutdown, session, configVars,
                   operation, operation_requires_timeout, require_last_exception,
                   timeout, abs_timeout_time, links, invocations>>

\* line 279: asyncio.sleep(backoff) is over; the loop calls the operation again
SleepDone ==
    /\ pc = "sleep"
    /\ now' = now + slept
    /\ NextAttempt(retried_times, kwargs, operation_requires_timeout,
                   abs_timeout_time, now + slept, invocations)
    /\ event' = LoopEvent
    /\ UNCHANGED <<credVars, tasks, mgmt_msg, handlerVars, sessionVars, configVars, operation,
                   operation_requires_timeout, require_last_exception, timeout,
                   abs_timeout_time, retried_times, last_exception, error, exception,
                   links, close_async_calls, sleeps, slept, backoff_calls>>

\* The call has returned or raised: its frame, and with it every local, is
\* gone. The return is part of the step that ended the loop, so no other task
\* runs before it.
Return ==
    /\ pc = "done"
    /\ pc' = "idle"
    /\ operation' = "operation"
    /\ operation_requires_timeout' = FALSE
    /\ require_last_exception' = FALSE
    /\ timeout' = None
    /\ abs_timeout_time' = None
    /\ retried_times' = 0
    /\ last_exception' = NoError
    /\ kwargs' = [timeout |-> None, last_exception |-> NoError]
    /\ error' = NoError
    /\ exception' = NoException
    /\ outcome' = Pending
    /\ invocations' = 0
    /\ sleeps' = 0
    /\ slept' = 0
    /\ backoff_calls' = 0
    /\ now' = T0
    /\ event' = LoopEvent
    /\ UNCHANGED <<credVars, tasks, mgmt_msg, handlerVars, sessionVars, configVars, links, close_async_calls>>

\* ------------------------------------------------------------------ request
\* The locals of _do_retryable_operation, which a management request that is
\* called without the loop does not have.
loopVars == <<operation, operation_requires_timeout, require_last_exception,
              timeout, abs_timeout_time, retried_times, last_exception, kwargs,
              error, outcome>>

\* A management request called and answered by name (its raised exception's
\* class, if any).
RequestEvent(result, class) ==
    Event("_mgmt_request_response", result, class, FALSE, "None", FALSE)

\* lines 303-329: _mgmt_request_response is called by itself, not through
\* _do_retryable_operation, and awaits self._open()
RequestStarts ==
    /\ pc = "idle"
    /\ pc' = "mgmt_open"
    /\ exception' = NoException
    /\ event' = LoopEvent
    /\ UNCHANGED <<credVars, tasks, mgmt_msg, handlerVars, sessionVars, configVars, now, loopVars,
                   obsVars>>

\* Mutant: the request goes on to build and send its message without the open.
RequestOpenedWithoutOpen(keep_alive_associated_link, has_link) ==
    /\ pc = "mgmt_open"
    /\ UNCHANGED <<handler, running, links>>
    /\ pc' = "mgmt_send"
    /\ event' = LoopEvent
    /\ mgmt_msg' = MgmtMsg(keep_alive_associated_link, handler', has_link)
    /\ UNCHANGED <<credVars, tasks, shutdown, sessionVars, configVars, now, loopVars,
                   exception, close_async_calls, invocations, sleeps, slept,
                   backoff_calls>>

\* lines 329-358: self._open() has returned; the message is built and handed
\* to mgmt_client_request_async
RequestOpened(keep_alive_associated_link, has_link) ==
    /\ pc = "mgmt_open"
    /\ _open
    /\ pc' = "mgmt_send"
    /\ event' = LoopEvent
    /\ mgmt_msg' = MgmtMsg(keep_alive_associated_link, handler', has_link)
    /\ UNCHANGED <<credVars, tasks, shutdown, sessionVars, configVars, now, loopVars,
                   exception, close_async_calls, invocations, sleeps, slept,
                   backoff_calls>>

\* line 329: self._open() raises; the exception leaves the request as it is,
\* and lines 331-362 are not reached
RequestOpenRaises ==
    /\ pc = "mgmt_open"
    /\ pc' = "idle"
    /\ exception' = Exc("Exception", "None")
    /\ event' = RequestEvent("raised", "Exception")
    /\ UNCHANGED <<credVars, tasks, mgmt_msg, handlerVars, sessionVars, configVars, now, loopVars,
                   obsVars>>

\* lines 350-358: the response is returned to the caller
RequestResponds ==
    /\ pc = "mgmt_send"
    /\ pc' = "idle"
    /\ exception' = NoException
    /\ event' = RequestEvent("returned", "None")
    /\ mgmt_msg' = NoMessage
    /\ UNCHANGED <<credVars, tasks, handlerVars, sessionVars, configVars, now, loopVars,
                   obsVars>>

\* lines 359-362: mgmt_client_request_async raises exp
RequestRaises(exp) ==
    /\ pc = "mgmt_send"
    /\ pc' = "idle"
    /\ exception' = MgmtException(exp)
    /\ event' = RequestEvent("raised", MgmtException(exp).class)
    /\ mgmt_msg' = NoMessage
    /\ UNCHANGED <<credVars, tasks, handlerVars, sessionVars, configVars, now, loopVars,
                   obsVars>>

\* ------------------------------------------------------------------ Next
Next ==
    \/ \E op \in Operations, tmo \in Timeouts, requires \in BOOLEAN,
          needs_last \in BOOLEAN : StartCall(op, tmo, requires, needs_last)
    \/ OpReturns
    \/ \E d \in OpTimes, keep_alive_associated_link \in BOOLEAN, has_link \in BOOLEAN :
          MgmtOpened(d, keep_alive_associated_link, has_link)
    \/ MgmtResponds
    \/ \E sig \in Signals : OpRaisesSignal(sig)
    \/ \E d \in OpTimes, err \in ClassifiedErrors(invocations) : OpRaises(err, d)
    \/ SleepDone
    \/ Return
    \/ RequestStarts
    \/ \E keep_alive_associated_link \in BOOLEAN, has_link \in BOOLEAN :
          RequestOpened(keep_alive_associated_link, has_link)
    \/ RequestOpenRaises
    \/ RequestResponds
    \/ \E exp \in TransportErrors : RequestRaises(exp)
    \/ close
    \/ \E lock_expired \in BOOLEAN, auto_renew_error \in AutoRenewErrors :
          _check_live(lock_expired, auto_renew_error)

Spec == Init /\ [][Next]_vars


\* ------------------------------------------------------------------ BackoffSpec
\* The retry loop of a handler without a session, under every backoff
\* configuration with a factor and a maximum in 0..MaxBackoff; no other task
\* runs beside the call.
BackoffInit ==
    /\ handler = NoLink
    /\ running = FALSE
    /\ shutdown = FALSE
    /\ session = FALSE
    /\ lock_lost = FALSE
    /\ retry_total \in 0..MaxRetryTotal
    /\ retry_mode \in RetryModes
    /\ retry_backoff_factor \in 0..MaxBackoff
    /\ retry_backoff_max \in 0..MaxBackoff
    /\ now = T0
    /\ pc = "idle"
    /\ operation = "operation"
    /\ operation_requires_timeout = FALSE
    /\ require_last_exception = FALSE
    /\ timeout = None
    /\ abs_timeout_time = None
    /\ retried_times = 0
    /\ last_exception = NoError
    /\ kwargs = [timeout |-> None, last_exception |-> NoError]
    /\ error = NoError
    /\ exception = NoException
    /\ mgmt_msg = NoMessage
    /\ outcome = Pending
    /\ links = 0
    /\ close_async_calls = [l \in Links |-> 0]
    /\ invocations = 0
    /\ sleeps = 0
    /\ slept = 0
    /\ backoff_calls = 0
    /\ event = LoopEvent
    /\ credential = Credential("ServiceBusSharedKeyCredential", "", None,
                               "policy1", "key1")
    /\ scopes = <<>>
    /\ token = NoToken
    /\ get_token_calls = 0
    /\ generated = 0
    /\ tasks = [t \in Tasks |-> IdleTask]

BackoffNext ==
    \/ \E op \in Operations, tmo \in Timeouts, requires \in BOOLEAN,
          needs_last \in BOOLEAN : StartCall(op, tmo, requires, needs_last)
    \/ OpReturns
    \/ \E d \in OpTimes, keep_alive_associated_link \in BOOLEAN, has_link \in BOOLEAN :
          MgmtOpened(d, keep_alive_associated_link, has_link)
    \/ MgmtResponds
    \/ \E sig \in Signals : OpRaisesSignal(sig)
    \/ \E d \in OpTimes, err \in ClassifiedErrors(invocations) : OpRaises(err, d)
    \/ SleepDone
    \/ Return

BackoffSpec == BackoffInit /\ [][BackoffNext]_vars

\* ------------------------------------------------------------------ get_token
\* Mutant: get_token stamps the credential with the type of the token it gave.
get_token_retypes(scps) ==
    /\ get_token_calls < MaxCalls
    /\ scopes' = scps
    /\ token' = GetTokenResult(credential, scps, now)
    /\ get_token_calls' = get_token_calls + 1
    /\ generated' = IF GeneratesSasToken(credential, scps)
                      THEN generated + 1 ELSE generated
    /\ credential' = [credential EXCEPT !.token_type = token'.status]
    /\ UNCHANGED <<tasks, handlerVars, sessionVars, configVars, now, callVars,
                   obsVars, event>>

\* lines 57-64, 79-82, 95-99 and 113-121: a call of get_token(*scps)
get_token(scps) ==
    /\ get_token_calls < MaxCalls
    /\ scopes' = scps
    /\ token' = GetTokenResult(credential, scps, now)
    /\ get_token_calls' = get_token_calls + 1
    /\ generated' = IF GeneratesSasToken(credential, scps)
                      THEN generated + 1 ELSE generated
    /\ UNCHANGED <<credential, tasks, handlerVars, sessionVars, configVars, now, callVars,
                   obsVars, event>>

\* A credential of any class, right after its construction, and the calls of
\* get_token on it; no handler operation runs.
CredentialInit ==
    /\ credential \in Credentials
    /\ scopes = <<>>
    /\ token = NoToken
    /\ get_token_calls = 0
    /\ generated = 0
    /\ tasks = [t \in Tasks |-> IdleTask]
    /\ handler = NoLink
    /\ running = FALSE
    /\ shutdown = FALSE
    /\ session = FALSE
    /\ lock_lost = FALSE
    /\ retry_total = 0
    /\ retry_mode = "fixed"
    /\ retry_backoff_factor = BackoffFactor
    /\ retry_backoff_max = MaxBackoff
    /\ now = T0
    /\ pc = "idle"
    /\ operation = "operation"
    /\ operation_requires_timeout = FALSE
    /\ require_last_exception = FALSE
    /\ timeout = None
    /\ abs_timeout_time = None
    /\ retried_times = 0
    /\ last_exception = NoError
    /\ kwargs = [timeout |-> None, last_exception |-> NoError]
    /\ error = NoError
    /\ exception = NoException
    /\ mgmt_msg = NoMessage
    /\ outcome = Pending
    /\ links = 0
    /\ close_async_calls = [l \in Links |-> 0]
    /\ invocations = 0
    /\ sleeps = 0
    /\ slept = 0
    /\ backoff_calls = 0
    /\ event = LoopEvent

CredentialNext == \E scps \in ScopeLists : get_token(scps)

CredentialSpec == CredentialInit /\ [][CredentialNext]_vars


\* ------------------------------------------------------------------ CloseSpec
\* The awaits of _close_handler as suspension points: tasks that call close,
\* __aexit__ or the teardown of _handle_exception run interleaved with each
\* other and with the task that opens the handler, and close_async may raise.

\* line 403 is reached by close (and by __aexit__, which calls it) only.
SetsShutdown(closer) == closer \in {"close", "__aexit__"}

\* The end of a call of close, __aexit__ or the teardown, by name.
CloseEvent(closer, result, class) ==
    Event(closer, result, class, FALSE, "None", FALSE)

\* Mutant: __aexit__ closes the handler only when the body did not raise.
CloseCalledUnlessBodyRaised(t, closer, body_raised) ==
    /\ tasks[t].pc # "close_async"
    /\ closer # "__aexit__" => ~body_raised
    /\ IF handler # NoLink /\ ~body_raised
         THEN /\ close_async_calls[handler] < MaxCloseCalls
              /\ close_async_calls' = [close_async_calls EXCEPT ![handler] = @ + 1]
              /\ tasks' = [tasks EXCEPT
                             ![t] = Task("close_async", closer, handler, body_raised)]
              /\ event' = LoopEvent
              /\ UNCHANGED <<handler, running, shutdown>>
         ELSE /\ running' = (running /\ body_raised)
              /\ IF SetsShutdown(closer) /\ ~body_raised
                   THEN ShutdownSet ELSE UNCHANGED shutdown
              /\ tasks' = [tasks EXCEPT
                             ![t] = Task("returned", closer, NoLink, body_raised)]
              /\ event' = CloseEvent(closer, "ok", "None")
              /\ UNCHANGED <<handler, close_async_calls>>
    /\ UNCHANGED <<credVars, sessionVars, configVars, now, callVars, links,
                   invocations, sleeps, slept, backoff_calls>>

\* lines 170-171, 394-402 and 388-390: the task t calls close, __aexit__
\* (body_raised: the body of the `async with` raised) or the teardown of
\* _handle_exception. With a link held it calls the link's close_async and is
\* suspended at line 390; without one lines 392 and 403 end the call at once.
CloseCalled(t, closer, body_raised) ==
    /\ tasks[t].pc # "close_async"
    /\ closer # "__aexit__" => ~body_raised
    /\ IF handler # NoLink
         THEN /\ close_async_calls[handler] < MaxCloseCalls
              /\ close_async_calls' = [close_async_calls EXCEPT ![handler] = @ + 1]
              /\ tasks' = [tasks EXCEPT
                             ![t] = Task("close_async", closer, handler, body_raised)]
              /\ event' = LoopEvent
              /\ UNCHANGED <<handler, running, shutdown>>
         ELSE /\ running' = FALSE
              /\ IF SetsShutdown(closer) THEN ShutdownSet ELSE UNCHANGED shutdown
              /\ tasks' = [tasks EXCEPT
                             ![t] = Task("returned", closer, NoLink, body_raised)]
              /\ event' = CloseEvent(closer, "ok", "None")
              /\ UNCHANGED <<handler, close_async_calls>>
    /\ UNCHANGED <<credVars, sessionVars, configVars, now, callVars, links,
                   invocations, sleeps, slept, backoff_calls>>

\* lines 390-392 and 403: the close_async the task t awaits returns
CloseAsyncReturns(t) ==
    /\ tasks[t].pc = "close_async"
    /\ handler' = NoLink
    /\ running' = FALSE
    /\ IF SetsShutdown(tasks[t].closer) THEN ShutdownSet ELSE UNCHANGED shutdown
    /\ tasks' = [tasks EXCEPT
                   ![t] = Task("returned", tasks[t].closer, NoLink,
                               tasks[t].body_raised)]
    /\ event' = CloseEvent(tasks[t].closer, "ok", "None")
    /\ UNCHANGED <<credVars, sessionVars, configVars, now, callVars, links,
                   close_async_calls, invocations, sleeps, slept, backoff_calls>>

\* Mutant: the link is forgotten and running cleared although close_async
\* raised (as a `finally` would).
CloseAsyncRaisesForgetsLink(t) ==
    /\ tasks[t].pc = "close_async"
    /\ handler' = NoLink
    /\ running' = FALSE
    /\ UNCHANGED shutdown
    /\ tasks' = [tasks EXCEPT
                   ![t] = Task("raised", tasks[t].closer, NoLink,
                               tasks[t].body_raised)]
    /\ event' = CloseEvent(tasks[t].closer, "raised", "Exception")
    /\ UNCHANGED <<credVars, sessionVars, configVars, now, callVars, links,
                   close_async_calls, invocations, sleeps, slept, backoff_calls>>

\* line 390: the close_async the task t awaits raises; lines 391-392 and 403
\* are not reached and the exception leaves the call
CloseAsyncRaises(t) ==
    /\ tasks[t].pc = "close_async"
    /\ UNCHANGED <<handler, running, shutdown>>
    /\ tasks' = [tasks EXCEPT
                   ![t] = Task("raised", tasks[t].closer, NoLink,
                               tasks[t].body_raised)]
    /\ event' = CloseEvent(tasks[t].closer, "raised", "Exception")
    /\ UNCHANGED <<credVars, sessionVars, configVars, now, callVars, links,
                   close_async_calls, invocations, sleeps, slept, backoff_calls>>

\* The task that uses the handler opens it (the subclass's _open, which does
\* not read the shutdown flag).
TaskOpens ==
    /\ ~running
    /\ _open
    /\ event' = LoopEvent
    /\ UNCHANGED <<credVars, tasks, shutdown, sessionVars, configVars, now,
                   callVars, close_async_calls, invocations, sleeps, slept,
                   backoff_calls>>

CloseInit ==
    /\ Init
    /\ ~session
    /\ retry_total = 0
    /\ retry_mode = "fixed"

CloseNext ==
    \/ TaskOpens
    \/ \E t \in Tasks, closer \in Closers, body_raised \in BOOLEAN :
          CloseCalled(t, closer, body_raised)
    \/ \E t \in Tasks : CloseAsyncReturns(t)
    \/ \E t \in Tasks : CloseAsyncRaises(t)

CloseSpec == CloseInit /\ [][CloseNext]_vars

\* ------------------------------------------------------------------ claims
\* The step in which an attempt's failure is classified: error becomes the
\* classified error of the attempt in flight.
Classifies == error' # error /\ error'.attempt = invocations

\* The call ended and its last attempt failed with a classified error.
EndedInFailure == pc = "done" /\ error.attempt = invocations

\* _handle_exception returned every failure of the call, the last included
\* (line 241 assigned it to last_exception).
EveryFailureReturned == pc = "done" /\ last_exception.attempt = invocations

\* C1, as stated: a call whose operation fails on every attempt with an error
\* whose retryable flag is set invokes the operation retry_total + 1 times and
\* then raises the last classified error (here also: the error it causes).
C1_AsStated ==
    (EndedInFailure /\ error.retryable)
        => /\ invocations = retry_total + 1
           /\ outcome.status = "raised"
           /\ Raised(error) \in {outcome.error, outcome.cause}

\* C1, amended: a call without a deadline, every failure of which
\* _handle_exception returned for retry, invokes the operation
\* retry_total + 1 times and then raises the last classified error: itself,
\* or, for an OperationTimeoutError, the remediation error caused by it.
C1_AttemptsWithoutDeadline ==
    (EveryFailureReturned /\ abs_timeout_time = None)
        => /\ invocations = retry_total + 1
           /\ retried_times = retry_total + 1
           /\ outcome = TerminalFailure(last_exception)
           /\ (last_exception.kind # "OperationTimeoutError"
                 => outcome = Propagated(last_exception))

C1_Witness ==
    /\ EveryFailureReturned
    /\ abs_timeout_time = None
    /\ retry_total = 2
    /\ invocations = 3
    /\ outcome = Propagated(last_exception)

\* C2: a failure classified as non-retryable is raised out of the attempt
\* that failed: the call is over, the error raised is that error, the attempt
\* is not counted as a retry and no backoff follows it; so when the first
\* failure is non-retryable the operation was invoked once and nothing slept.
C2_NonRetryableRaisedAtOnce ==
    (error.attempt >= 1 /\ ~error.retryable)
        => /\ pc = "done"
           /\ error.attempt = invocations
           /\ outcome = Propagated(error)
           /\ retried_times = invocations - 1
           /\ sleeps = invocations - 1
           /\ last_exception # error

C2_Witness ==
    /\ pc = "done"
    /\ retry_total = 2
    /\ error.attempt = 1
    /\ ~error.retryable
    /\ invocations = 1
    /\ sleeps = 0
    /\ outcome = Propagated(error)

\* C3: a call that returns the result of attempt k+1 after k retryable
\* failures (k <= retry_total) returns that attempt's result, has slept
\* exactly k times, and k+1 is the number of invocations: none follows the
\* success.
C3_SuccessAfterRetries ==
    (pc = "done" /\ outcome.status = "returned")
        => /\ outcome = Returned(invocations)
           /\ retried_times = invocations - 1
           /\ retried_times <= retry_total
           /\ sleeps = retried_times
           /\ (retried_times >= 1 => last_exception.attempt = retried_times)

C3_Witness ==
    /\ pc = "done"
    /\ retry_total = 2
    /\ outcome = Returned(3)
    /\ retried_times = 2
    /\ sleeps = 2
    /\ last_exception.retryable

\* C4: when the retries are exhausted (retried_times > retry_total) the call
\* raises: for a last error that is an OperationTimeoutError, a new
\* OperationTimeoutError with the remediation text whose cause is the last
\* error; for any other last error, that error itself.
C4_ExhaustedRaises ==
    (pc = "done" /\ retried_times > retry_total)
        => /\ invocations = retry_total + 1
           /\ outcome.status = "raised"
           /\ IF last_exception.kind = "OperationTimeoutError"
                THEN /\ outcome.error = RemediationError
                     /\ outcome.cause = Raised(last_exception)
                ELSE /\ outcome.error = Raised(last_exception)
                     /\ outcome.cause = Nothing
           /\ last_exception.attempt = invocations

C4_Witness ==
    /\ pc = "done"
    /\ retry_total = 1
    /\ retried_times = 2
    /\ invocations = 2
    /\ last_exception.kind = "OperationTimeoutError"
    /\ outcome.error = RemediationError
    /\ outcome.cause = Raised(last_exception)

\* The session short-circuit has acted on the failure classified in this
\* step: the session is marked, the link is closed (its close_async called if
\* a link was held) and the error is raised out of the attempt, which is not
\* counted, not slept after and not repeated.
ShortCircuited ==
    /\ lock_lost'
    /\ handler' = NoLink
    /\ ~running'
    /\ (handler # NoLink =>
          close_async_calls'[handler] = close_async_calls[handler] + 1)
    /\ pc' = "done"
    /\ outcome' = Propagated(error')
    /\ retried_times' = retried_times
    /\ last_exception' = last_exception
    /\ sleeps' = sleeps
    /\ invocations' = invocations

\* C5: on a session-bound handler with running = true, a failure classified
\* as SessionLockLostError marks the session lock-lost, closes the link and
\* is raised out of the attempt, with no retry counted, no backoff and no
\* further invocation.
C5_SessionLockLostShortCircuit ==
    [][(Classifies /\ session /\ running /\ error'.kind = "SessionLockLostError")
          => ShortCircuited]_vars

C5_Witness ==
    /\ pc = "done"
    /\ session
    /\ lock_lost
    /\ ~shutdown
    /\ error.kind = "SessionLockLostError"
    /\ ~error.shutdown_handler
    /\ retry_total = 2
    /\ invocations = 1
    /\ links = 1
    /\ close_async_calls[1] = 1
    /\ handler = NoLink
    /\ outcome = Propagated(error)

\* C6: on a session-bound handler with running = true, a failure classified
\* as ServiceBusConnectionError takes the same short-circuit even when its
\* retryable flag is set.
C6_ConnectionErrorShortCircuit ==
    [][(/\ Classifies
        /\ session
        /\ running
        /\ error'.kind = "ServiceBusConnectionError"
        /\ error'.retryable)
          => ShortCircuited]_vars

C6_Witness ==
    /\ pc = "done"
    /\ session
    /\ lock_lost
    /\ error.kind = "ServiceBusConnectionError"
    /\ error.retryable
    /\ ~error.shutdown_handler
    /\ retry_total = 2
    /\ invocations = 1
    /\ links = 1
    /\ close_async_calls[1] = 1
    /\ handler = NoLink
    /\ outcome = Propagated(error)

\* C7: no step unmarks a session marked lock-lost, and a _check_live on a
\* handler that is not shut down and whose session is marked lock-lost or has
\* its lock expired raises SessionLockLostError carrying the session's
\* auto_renew_error.
C7_LockLostIsPermanent ==
    [][/\ lock_lost => lock_lost'
       /\ (/\ event'.op = "_check_live"
           /\ ~shutdown
           /\ session
           /\ (lock_lost \/ event'.lock_expired))
             => /\ event'.result = "SessionLockLostError"
                /\ event'.error = event'.auto_renew_error]_vars

C7_Witness ==
    /\ event.op = "_check_live"
    /\ lock_lost
    /\ ~shutdown
    /\ ~event.lock_expired
    /\ event.result = "SessionLockLostError"
    /\ event.error = "AutoLockRenewFailed"

\* C8: with the shutdown flag set, _check_live raises the ValueError that
\* tells the caller to create a new instance, whatever the session's state,
\* and changes nothing: the handler, the session, the call in flight, the
\* links and the calls made on them are as before.
C8_ShutdownFailsLivenessCheck ==
    [][(event'.op = "_check_live" /\ shutdown)
          => /\ event'.result = "ValueError"
             /\ UNCHANGED <<handlerVars, sessionVars, configVars, now,
                            callVars, obsVars>>]_vars

C8_Witness ==
    /\ event.op = "_check_live"
    /\ shutdown
    /\ session
    /\ lock_lost
    /\ event.lock_expired
    /\ event.result = "ValueError"

C10_ShutdownIsMonotonic ==
    /\ ~shutdown
    /\ [][shutdown => shutdown']_vars

C10_Witness ==
    /\ shutdown
    /\ pc = "sleep"
    /\ retried_times = 1
    /\ error.shutdown_handler
    /\ operation = "_mgmt_request_response"

\* C11: the handler is never resurrected: once close has set the shutdown
\* flag, the handler holds no link and running is false, whatever operations
\* follow (management requests and retried opens included).
C11_NeverResurrected == shutdown => (handler = NoLink /\ ~running)

\* C12: for every backoff configuration and every attempt number the delay
\* the retry loop computes is non-negative and at most retry_backoff_max, and
\* so is every delay it sleeps for, which is the delay computed for the
\* number of failures so far.
C12_BackoffWithinMax ==
    /\ \A r \in 1..(MaxRetryTotal + 1) :
          LET backoff == _get_backoff_time(retry_mode, retry_backoff_factor,
                                           retry_backoff_max, r)
          IN  0 <= backoff /\ backoff <= retry_backoff_max
    /\ sleeps >= 1
         => /\ 0 <= slept
            /\ slept <= retry_backoff_max
    /\ pc = "sleep"
         => slept = _get_backoff_time(retry_mode, retry_backoff_factor,
                                      retry_backoff_max, retried_times)

C12_Witness ==
    /\ pc = "sleep"
    /\ retry_mode = "exponential"
    /\ retried_times = 2
    /\ retry_backoff_factor * Pow2(retried_times) > retry_backoff_max
    /\ retry_backoff_max = MaxBackoff
    /\ slept = retry_backoff_max

\* C13: with a deadline set, every attempt is invoked with timeout = deadline
\* - (the time the attempt starts at), which is at most the caller's timeout
\* and at most the timeout of the attempt before it; and every call of
\* _mgmt_request_response by the retry loop runs with
\* operation_requires_timeout = true.
C13_RemainingTimeout ==
    [][/\ (invocations' = invocations + 1 /\ abs_timeout_time' # None)
            => /\ kwargs'.timeout = abs_timeout_time' - now'
               /\ kwargs'.timeout <= timeout'
               /\ (invocations >= 1 => kwargs'.timeout <= kwargs.timeout)
       /\ (invocations' = invocations + 1 /\ operation' = "_mgmt_request_response")
            => operation_requires_timeout']_vars

C13_Witness ==
    /\ pc = "inop"
    /\ operation = "_mgmt_request_response"
    /\ timeout = MaxTimeout
    /\ invocations = 2
    /\ kwargs.timeout = abs_timeout_time - now
    /\ kwargs.timeout < timeout

\* C14: with a deadline set, when _handle_exception has returned a failure
\* for retry, retries remain and the delay computed for it would end after
\* the deadline, the loop does not sleep and does not invoke the operation
\* again: it raises as on exhaustion (the remediation error caused by a last
\* OperationTimeoutError, any other last error itself).
C14_BackoffPastDeadline ==
    [][(/\ Classifies
        /\ ~HandleExceptionRaises(error')
        /\ ~Exhausted(retried_times + 1, retry_total)
        /\ abs_timeout_time # None
        /\ _get_backoff_time(retry_mode, retry_backoff_factor, retry_backoff_max,
                             retried_times + 1) + now' > abs_timeout_time)
          => /\ pc' = "done"
             /\ outcome' = TerminalFailure(error')
             /\ (error'.kind = "OperationTimeoutError"
                   => /\ outcome'.error = RemediationError
                      /\ outcome'.cause = Raised(error'))
             /\ (error'.kind # "OperationTimeoutError"
                   => outcome' = Propagated(error'))
             /\ sleeps' = sleeps
             /\ slept' = slept
             /\ invocations' = invocations]_vars

C14_Witness ==
    /\ pc = "done"
    /\ abs_timeout_time # None
    /\ retried_times <= retry_total
    /\ last_exception.attempt = invocations
    /\ last_exception.kind = "OperationTimeoutError"
    /\ outcome.error = RemediationError
    /\ outcome.cause = Raised(last_exception)
    /\ invocations = 2
    /\ sleeps = 1

\* C15: a StopAsyncIteration or ImportError raised by an attempt is raised
\* out of the call from that attempt: it is not classified, the link, the
\* running flag and the session's lock-lost mark are as before, the attempt is
\* not counted, nothing sleeps and no further attempt is made.
C15_SignalsPropagate ==
    [][(outcome' # outcome /\ outcome'.error.kind \in Signals)
          => /\ pc \in {"inop", "send"}
             /\ pc' = "done"
             /\ outcome' = Propagated([kind |-> outcome'.error.kind,
                                       attempt |-> invocations])
             /\ error' = error
             /\ last_exception' = last_exception
             /\ retried_times' = retried_times
             /\ UNCHANGED <<handlerVars, sessionVars, obsVars>>]_vars

C15_Witness ==
    /\ pc = "done"
    /\ outcome.error.kind = "ImportError"
    /\ retry_total = 2
    /\ invocations = 2
    /\ retried_times = 1
    /\ sleeps = 1
    /\ running
    /\ handler # NoLink

\* C16: the attempts of one call are sequential: an attempt starts only when
\* none is in flight, and an attempt after the first only when the one before
\* it has failed, _handle_exception has classified the failure and returned
\* it (having closed the link if the failure asked for it), and the backoff
\* sleep that followed is over.
C16_AttemptsSequential ==
    [][invocations' = invocations + 1
          => /\ pc \in {"idle", "sleep"}
             /\ pc' = "inop"
             /\ invocations >= 1
                  => /\ pc = "sleep"
                     /\ error.attempt = invocations
                     /\ last_exception = error
                     /\ retried_times = invocations
                     /\ sleeps = invocations
                     /\ now' = now + slept
                     /\ (error.shutdown_handler => handler = NoLink /\ ~running)]_vars

C16_Witness ==
    /\ pc = "inop"
    /\ invocations = 2
    /\ error.attempt = 1
    /\ error.shutdown_handler
    /\ links = 1
    /\ close_async_calls[1] = 1
    /\ handler = NoLink
    /\ sleeps = 1

C18_SharedKeyNeedsScope ==
    [][(/\ get_token_calls' = get_token_calls + 1
        /\ credential.variant = "ServiceBusSharedKeyCredential")
          => IF Len(scopes') = 0
               THEN /\ token' = TokenRaised("ValueError", "No token scope provided.")
                    /\ generated' = generated
               ELSE /\ token' = TokenReturned(
                                   _generate_sas_token(scopes'[1], credential.policy,
                                                       credential.key, now))
                    /\ generated' = generated + 1]_vars

C18_Witness ==
    /\ credential.variant = "ServiceBusSharedKeyCredential"
    /\ get_token_calls = 2
    /\ generated = 1
    /\ Len(scopes) = 0
    /\ token = TokenRaised("ValueError", "No token scope provided.")

\* C19: get_token of a ServiceBusSASTokenCredential returns the token and the
\* expiry the credential was constructed with, whatever the scopes (none
\* included) and on every call; it generates no token and changes nothing
\* of the credential, which no step changes.
C19_SasTokenReturnedUnchanged ==
    [][/\ credential' = credential
       /\ (/\ get_token_calls' = get_token_calls + 1
           /\ credential.variant = "ServiceBusSASTokenCredential")
            => /\ token' = TokenReturned(AccessToken(credential.token,
                                                     credential.expiry))
               /\ generated' = generated
               /\ UNCHANGED <<handlerVars, sessionVars, configVars, now, callVars,
                              obsVars>>]_vars

C19_Witness ==
    /\ credential.variant = "ServiceBusSASTokenCredential"
    /\ get_token_calls = 2
    /\ Len(scopes) = 0
    /\ token.status = "returned"
    /\ token.token = credential.token
    /\ token.expires_on = credential.expiry

\* C20: a call has a deadline, the time of the call + timeout, exactly when
\* operation_requires_timeout is true and the timeout is neither None nor 0;
\* a call without one hands no timeout to the operation, never ends in
\* _backoff, and ends in failure only after retry_total + 1 attempts when
\* every failure was returned for retry.
C20_DeadlineOnlyWithFlagAndTimeout ==
    pc # "idle"
      => /\ abs_timeout_time # None
              <=> (operation_requires_timeout /\ timeout # None /\ timeout # 0)
         /\ abs_timeout_time # None => abs_timeout_time = T0 + timeout
         /\ abs_timeout_time = None
              => /\ kwargs.timeout = None
                 /\ invocations <= retry_total + 1
                 /\ (pc = "done" /\ last_exception.attempt = invocations)
                      => /\ retried_times = retry_total + 1
                         /\ invocations = retry_total + 1

C20_Witness ==
    /\ pc = "done"
    /\ ~operation_requires_timeout
    /\ timeout = MaxTimeout
    /\ abs_timeout_time = None
    /\ kwargs.timeout = None
    /\ retry_total = 2
    /\ invocations = 3
    /\ sleeps = 2
    /\ last_exception.attempt = 3

\* C21: while a deadline is set, no attempt of the call starts at or after
\* the deadline: whenever the operation is in flight, the remaining timeout it
\* was handed is strictly positive (and it was handed before the deadline).
C21_RemainingPositive ==
    (pc = "inop" /\ abs_timeout_time # None)
        => /\ kwargs.timeout # None
           /\ kwargs.timeout > 0

\* The delay _backoff computes for the failure being classified.
ComputedDelay ==
    _get_backoff_time(retry_mode, retry_backoff_factor, retry_backoff_max,
                      retried_times')

\* C22: when the call has no deadline, or the budget left at the failure is
\* at least the computed delay, a failure that classification returns for
\* retry with retries remaining is followed by a sleep of exactly the computed
\* delay (the call does not end in _backoff), and the sleep by a further
\* attempt.
C22_SleepsThenRetries ==
    /\ [][(/\ Classifies
           /\ ~HandleExceptionRaises(error')
           /\ ~Exhausted(retried_times', retry_total)
           /\ (abs_timeout_time = None \/ abs_timeout_time - now' >= ComputedDelay))
              => /\ pc' = "sleep"
                 /\ slept' = ComputedDelay
                 /\ sleeps' = sleeps + 1
                 /\ outcome' = Pending]_vars
    /\ [][(pc = "sleep" /\ pc' # "sleep")
              => /\ pc' = "inop"
                 /\ now' = now + slept
                 /\ invocations' = invocations + 1]_vars

\* A further attempt is in flight after a sleep that used up the whole budget
\* left at the failure.
C22_Witness ==
    /\ pc = "inop"
    /\ abs_timeout_time # None
    /\ invocations = 2
    /\ sleeps = 1
    /\ slept = 2
    /\ now = abs_timeout_time

\* C23: when a failed attempt both exhausts the retries and finds the deadline
\* passed, the retry count decides: the call ends with the terminal error of
\* the exhaustion branch and _backoff is not called, so no delay is computed
\* and the deadline is not compared; _backoff is called only while retries
\* remain.
C23_ExhaustionDecidesFirst ==
    /\ [][(/\ Classifies
           /\ ~HandleExceptionRaises(error')
           /\ Exhausted(retried_times', retry_total))
              => /\ pc' = "done"
                 /\ outcome' = TerminalFailure(error')
                 /\ backoff_calls' = backoff_calls
                 /\ UNCHANGED <<sleeps, slept>>]_vars
    /\ [][backoff_calls' > backoff_calls
              => ~Exhausted(retried_times', retry_total)]_vars

\* The last attempt of a call failed after its deadline with the retries
\* exhausted; _backoff ran after the earlier failures only.
C23_Witness ==
    /\ pc = "done"
    /\ EveryFailureReturned
    /\ Exhausted(retried_times, retry_total)
    /\ abs_timeout_time # None
    /\ now > abs_timeout_time
    /\ retry_total = 1
    /\ backoff_calls = 1
    /\ outcome.status = "raised"

\* C24, as stated: retried_times lies in 0..max_retries in every state of a
\* call, increases by exactly one per classified retryable failure, and never
\* changes otherwise while the call lasts.
C24_AsStated ==
    /\ [](retried_times \in 0..retry_total)
    /\ [][(Classifies /\ error'.retryable)
              => retried_times' = retried_times + 1]_vars
    /\ [][(retried_times' # retried_times /\ pc' # "idle")
              => /\ Classifies
                 /\ error'.retryable
                 /\ retried_times' = retried_times + 1]_vars

\* C24, amended: retried_times lies in 0..max_retries + 1 and exceeds
\* max_retries only in the state from which the exhaustion branch raises the
\* terminal error; it increases by exactly one per failure that classification
\* returns for retry, stays as it is when classification raises, and never
\* changes otherwise while the call lasts.
C24_RetriedTimes ==
    /\ [](retried_times \in 0..retry_total + 1)
    /\ [](retried_times > retry_total
              => (pc = "done" /\ outcome = TerminalFailure(last_exception)))
    /\ [][(Classifies /\ ~HandleExceptionRaises(error'))
              => retried_times' = retried_times + 1]_vars
    /\ [][(Classifies /\ HandleExceptionRaises(error'))
              => retried_times' = retried_times]_vars
    /\ [][(retried_times' # retried_times /\ pc' # "idle")
              => /\ Classifies
                 /\ ~HandleExceptionRaises(error')
                 /\ retried_times' = retried_times + 1]_vars

\* The counter stands at max_retries + 1 in the state that raises the terminal
\* error, after max_retries + 1 failures returned for retry.
C24_Witness ==
    /\ pc = "done"
    /\ retry_total = 2
    /\ retried_times = 3
    /\ invocations = 3
    /\ EveryFailureReturned

\* The link is closed in this step: the handle is absent and running is false
\* after it, the close_async of a link that was held has been called once,
\* and nothing is called when no link was held.
LinkClosed ==
    /\ handler' = NoLink
    /\ ~running'
    /\ close_async_calls' =
         IF handler # NoLink
           THEN [close_async_calls EXCEPT ![handler] = @ + 1]
           ELSE close_async_calls

\* C25: outside the session short-circuit, an error whose shutdown_handler
\* flag is set has the link closed within its classification, whether the
\* error is then returned for retry or (non-retryable) raised; closing an
\* absent link calls nothing and raises nothing.
C25_ShutdownHandlerClosesLink ==
    [][(Classifies /\ ~SessionShortCircuit(error') /\ error'.shutdown_handler)
          => /\ LinkClosed
             /\ UNCHANGED <<shutdown, lock_lost, links>>
             /\ ~error'.retryable => (pc' = "done" /\ outcome' = Propagated(error'))
             /\ error'.retryable => last_exception' = error']_vars

\* A non-retryable error with the flag set was raised, and the link the
\* handler held is closed.
C25_Witness ==
    /\ pc = "done"
    /\ ~session
    /\ error.attempt = invocations
    /\ error.shutdown_handler
    /\ ~error.retryable
    /\ outcome = Propagated(error)
    /\ links = 1
    /\ close_async_calls[1] = 1
    /\ handler = NoLink
    /\ ~running

\* C26: the classification of an error whose shutdown_handler flag is clear
\* and that does not take the session short-circuit leaves the link handle,
\* running, the shutdown flag, the lock-lost mark and the links as they are;
\* and no classification changes the shutdown flag.
C26_ClassificationLeavesState ==
    [][/\ (Classifies /\ ~SessionShortCircuit(error') /\ ~error'.shutdown_handler)
            => UNCHANGED <<handler, running, shutdown, lock_lost, links,
                           close_async_calls>>
       /\ Classifies => shutdown' = shutdown]_vars

\* A retry is being slept after such an error, on a handler that still holds
\* its link and is running.
C26_Witness ==
    /\ pc = "sleep"
    /\ error.attempt = invocations
    /\ ~error.shutdown_handler
    /\ error.kind = "ServiceBusConnectionError"
    /\ running
    /\ handler # NoLink
    /\ close_async_calls[handler] = 0
    /\ ~shutdown

\* The ordinary rule of _handle_exception has acted on the failure classified
\* in this step: the session is not marked, the link is closed exactly when
\* the shutdown_handler flag is set, and the error is returned for retry
\* (counted) when its retryable flag is set and raised as it is otherwise.
OrdinaryRule ==
    /\ lock_lost' = lock_lost
    /\ IF error'.shutdown_handler
         THEN LinkClosed
         ELSE UNCHANGED <<handler, running, close_async_calls>>
    /\ IF error'.retryable
         THEN /\ retried_times' = retried_times + 1
              /\ last_exception' = error'
         ELSE /\ retried_times' = retried_times
              /\ pc' = "done"
              /\ outcome' = Propagated(error')

\* C27: on a session-bound handler whose running is false, a failure
\* classified as SessionLockLostError or ServiceBusConnectionError does not
\* mark the session lock-lost and follows the ordinary rule.
C27_NotRunningNoShortCircuit ==
    [][(/\ Classifies
        /\ session
        /\ ~running
        /\ error'.kind \in {"SessionLockLostError", "ServiceBusConnectionError"})
          => OrdinaryRule]_vars

\* A connection error on a session handler that was not running is being
\* retried, and the session is not marked.
C27_Witness ==
    /\ pc = "sleep"
    /\ session
    /\ ~running
    /\ ~lock_lost
    /\ error.attempt = invocations
    /\ error.kind = "ServiceBusConnectionError"
    /\ ~error.shutdown_handler
    /\ retried_times = 1

\* C28: on a handler without a session, _check_live raises only for the
\* shutdown flag (ValueError) and passes otherwise, and every classification
\* follows the ordinary rule: no short-circuit, no mark, and the error raised
\* is the classified one, none caused by the missing session.
C28_NoSession ==
    [][~session
          => /\ event'.op = "_check_live"
                  => event'.result = IF shutdown THEN "ValueError" ELSE "ok"
             /\ Classifies => OrdinaryRule]_vars

\* A lost-lock error on a running handler without a session was raised by
\* the ordinary rule, and the link is still held.
C28_Witness ==
    /\ pc = "done"
    /\ ~session
    /\ ~lock_lost
    /\ error.attempt = invocations
    /\ error.kind = "SessionLockLostError"
    /\ ~error.shutdown_handler
    /\ running
    /\ handler # NoLink
    /\ outcome = Propagated(error)

\* A management request builds its message and hands it to the transport in
\* this step (lines 331-358 are entered).
Sends ==
    /\ pc' \in {"send", "mgmt_send"}
    /\ pc \notin {"send", "mgmt_send"}

\* The step in which a message is sent is the one in which the request's
\* open returned, with the link established and running set.
SendsOnlyOnceOpened ==
    Sends => /\ pc \in {"inop", "mgmt_open"}
             /\ running'
             /\ handler' # NoLink

\* The open of a management request raises in this step: of one called by
\* itself, or of one that is an attempt of the retry loop.
RequestOpenFails ==
    \/ pc = "mgmt_open" /\ pc' = "idle"
    \/ /\ pc = "inop"
       /\ operation = "_mgmt_request_response"
       /\ pc' \notin {"inop", "send"}
       /\ outcome'.error.kind \notin Signals

\* C29, as stated: every management request sends its message only once its
\* open has succeeded, and that open is executed under the retry loop, which
\* classifies its failure.
C29_AsStated ==
    [][/\ SendsOnlyOnceOpened
       /\ RequestOpenFails => Classifies]_vars

\* C29, amended: every management request sends its message only once its
\* open has succeeded. The open is under the retry loop only as part of an
\* attempt of the retried variant, where its failure is classified; the open
\* of a request called by itself runs once, and its exception leaves the
\* request as it is, unclassified, with nothing sent and the handler untouched.
C29_OpenBeforeSend ==
    [][/\ SendsOnlyOnceOpened
       /\ (RequestOpenFails /\ pc = "inop") => Classifies
       /\ (RequestOpenFails /\ pc = "mgmt_open")
            => /\ exception' = Exc("Exception", "None")
               /\ event' = RequestEvent("raised", "Exception")
               /\ UNCHANGED <<handlerVars, sessionVars, loopVars, obsVars>>]_vars

\* The open of a request called by itself has raised on a handler that never
\* held a link.
C29_Witness ==
    /\ pc = "idle"
    /\ event = RequestEvent("raised", "Exception")
    /\ exception = Exc("Exception", "None")
    /\ links = 0
    /\ handler = NoLink
    /\ ~running

\* What a management request may raise out of its send: for the transport's
\* timeout an OperationTimeoutError whose cause is that timeout, for any
\* other exception that exception itself.
MappedFromTransport(exc) ==
    \E exp \in TransportErrors :
        exc = IF exp = "TIMEOUT_ERROR"
                THEN Exc("OperationTimeoutError", "TIMEOUT_ERROR")
                ELSE Exc(exp, "None")

\* C30: a management request turns the transport's TIMEOUT_ERROR into an
\* OperationTimeoutError whose cause is the original and lets every other
\* exception out unchanged, called by itself or as an attempt of the retry
\* loop; in the loop the OperationTimeoutError is classified as one and, being
\* retryable, counted and retried by the ordinary rule like any other failure.
C30_TimeoutMapped ==
    [][/\ (pc = "mgmt_send" /\ pc' = "idle" /\ event'.result = "raised")
            => /\ MappedFromTransport(exception')
               /\ event'.error = exception'.class
       /\ (pc = "send" /\ Classifies)
            => /\ MappedFromTransport(exception')
               /\ exception'.class = "OperationTimeoutError"
                    => /\ error'.kind = "OperationTimeoutError"
                       /\ error'.retryable
                       /\ OrdinaryRule
                       /\ (pc' = "sleep" \/ outcome' = TerminalFailure(error'))]_vars

\* The retried request is asleep before its next attempt after a transport
\* timeout that was mapped and classified.
C30_Witness ==
    /\ pc = "sleep"
    /\ operation = "_mgmt_request_response"
    /\ exception = Exc("OperationTimeoutError", "TIMEOUT_ERROR")
    /\ error.kind = "OperationTimeoutError"
    /\ error.attempt = invocations
    /\ retried_times = 1
    /\ last_exception = error

\* C32: the token_type of a credential is the one its class sets at
\* construction, in every state: no call of get_token and no handler
\* operation changes it.
C32_TokenTypeFixed ==
    /\ credential.variant \in Variants
    /\ credential.token_type = TokenType(credential.variant)

\* get_token has been called as often as the bound allows on a named key
\* credential, which generated a token, and the type is the constructed one.
C32_Witness ==
    /\ credential.variant = "ServiceBusAzureNamedKeyTokenCredentialAsync"
    /\ get_token_calls = MaxCalls
    /\ generated >= 1
    /\ token.status = "returned"
    /\ credential.token_type = "servicebus.windows.net:sastoken"

\* C39: get_token of a ServiceBusAzureNamedKeyTokenCredentialAsync called with
\* no scope raises ValueError("No token scope provided.") and generates no
\* token, as that of a ServiceBusSharedKeyCredential does, and with a scope it
\* returns the token generated for the first scope with the wrapped name and
\* key; get_token of a ServiceBusAzureSasTokenCredentialAsync returns, with
\* no scope as with any, the wrapped signature and the expiry the signature
\* carries, and generates no token.
C39_ScopeRequirementByVariant ==
    [][get_token_calls' = get_token_calls + 1
          => /\ credential.variant = "ServiceBusAzureNamedKeyTokenCredentialAsync"
                  => IF Len(scopes') = 0
                       THEN /\ token' = TokenRaised("ValueError",
                                                   "No token scope provided.")
                            /\ generated' = generated
                       ELSE /\ token' = TokenReturned(
                                          _generate_sas_token(scopes'[1],
                                              credential.policy, credential.key, now))
                            /\ generated' = generated + 1
             /\ credential.variant = "ServiceBusAzureSasTokenCredentialAsync"
                  => /\ token'.status = "returned"
                     /\ token'.token = credential.token
                     /\ credential.token = Signature(token'.expires_on)
                     /\ generated' = generated]_vars

\* A named key credential was asked for a token without a scope.
C39_Witness ==
    /\ credential.variant = "ServiceBusAzureNamedKeyTokenCredentialAsync"
    /\ get_token_calls = 1
    /\ Len(scopes) = 0
    /\ generated = 0
    /\ token = TokenRaised("ValueError", "No token scope provided.")

\* C33: _check_live tests the shutdown flag before the session: on a session
\* handler that is shut down and whose session is marked lock-lost or has its
\* lock expired, it raises the ValueError of the shutdown, which carries no
\* auto_renew_error, and not SessionLockLostError.
C33_ShutdownTestedFirst ==
    (/\ event.op = "_check_live"
     /\ shutdown
     /\ session
     /\ (lock_lost \/ event.lock_expired))
        => /\ event.result = "ValueError"
           /\ event.error = "None"

\* _check_live ran on a handler that was closed after its session was marked
\* lock-lost, with the lock not expired and a failed renewal on record.
C33_Witness ==
    /\ event.op = "_check_live"
    /\ shutdown
    /\ session
    /\ lock_lost
    /\ ~event.lock_expired
    /\ event.auto_renew_error = "AutoLockRenewFailed"
    /\ event.result = "ValueError"

\* C34: every call of the retry loop invokes the operation at least once, and
\* a call that has ended has either raised or returned the result of its last
\* attempt, which did not fail: it never returns without a result.
C34_ReturnsOnlyAResult ==
    /\ pc \in {"inop", "send", "sleep", "done"} => invocations >= 1
    /\ pc = "done"
         => /\ outcome.status \in {"returned", "raised"}
            /\ outcome.status = "returned"
                 => /\ outcome = Returned(invocations)
                    /\ error.attempt # invocations
                    /\ retried_times = invocations - 1

\* A call on a handler configured with retry_total = 0 returned the result of
\* its only attempt.
C34_Witness ==
    /\ pc = "done"
    /\ retry_total = 0
    /\ invocations = 1
    /\ outcome = Returned(1)

\* C37: while an attempt is in flight, kwargs["last_exception"] is, for a
\* call with require_last_exception and an attempt after the first, the
\* classified error of the attempt just before; it is absent during the first
\* attempt and during every attempt of a call without the flag.
C37_LastExceptionHandedOn ==
    pc \in {"inop", "send"}
        => /\ kwargs.last_exception =
                IF require_last_exception /\ invocations > 1
                  THEN error ELSE NoError
           /\ invocations > 1
                => /\ error.attempt = invocations - 1
                   /\ last_exception = error
           /\ invocations = 1 => error = NoError

\* The third attempt of a call with the flag is in flight and was handed the
\* error of the second.
C37_Witness ==
    /\ pc = "inop"
    /\ require_last_exception
    /\ invocations = 3
    /\ kwargs.last_exception.attempt = 2
    /\ kwargs.last_exception.kind = "OperationTimeoutError"

\* C31: the message of a management request in flight carries, when
\* keep_alive_associated_link is true and the link's name was available,
\* exactly one application property, the associated-link name of the link the
\* handler holds; when no name was available the message was built and sent
\* all the same, with no application property; and when
\* keep_alive_associated_link is false it never carries one.
C31_ApplicationProperties ==
    /\ pc \in {"send", "mgmt_send"}
         => /\ mgmt_msg.built
            /\ mgmt_msg.application_properties =
                 IF mgmt_msg.keep_alive_associated_link /\ mgmt_msg.link_name # None
                   THEN {<<ASSOCIATEDLINKPROPERTYNAME, mgmt_msg.link_name>>}
                   ELSE {}
            /\ (mgmt_msg.link_name # None /\ handler # NoLink)
                 => mgmt_msg.link_name = handler
    /\ pc \notin {"send", "mgmt_send"} => mgmt_msg = NoMessage

\* A retried request is in flight on the second link of the handler, whose
\* name it carries.
C31_Witness ==
    /\ pc = "send"
    /\ handler = 2
    /\ mgmt_msg.keep_alive_associated_link
    /\ mgmt_msg.application_properties = {<<ASSOCIATEDLINKPROPERTYNAME, 2>>}

\* C35: tasks interleaved at the suspension points never overlap in tearing
\* down one link: no two of them await the close_async of the same link, be
\* they in close, __aexit__ or the teardown of an error classification.
C35_TornDownOnce ==
    \A t \in Tasks, u \in Tasks :
        (/\ t # u
         /\ tasks[t].pc = "close_async"
         /\ tasks[u].pc = "close_async")
            => tasks[t].link # tasks[u].link

\* C36: when the close_async awaited by close raises, the exception leaves
\* close and the step changes nothing of the handler: the link handle is the
\* one held before, running has the value it had and the shutdown flag is not
\* set by the call.
C36_FailedTeardownLeavesState ==
    [][\A t \in Tasks :
          (/\ tasks[t].pc = "close_async"
           /\ tasks'[t].pc = "raised"
           /\ tasks[t].closer = "close")
              => /\ event' = CloseEvent("close", "raised", "Exception")
                 /\ UNCHANGED <<handler, running, shutdown, links,
                                close_async_calls>>
                 /\ (handler = tasks[t].link /\ running /\ ~shutdown)
                      => (handler' = tasks[t].link /\ running' /\ ~shutdown')]_vars

\* The only close so far has failed in the close_async of the first link: the
\* handler still holds that link, is running and is not shut down.
C36_Witness ==
    /\ event = CloseEvent("close", "raised", "Exception")
    /\ tasks[1] = Task("raised", "close", NoLink, FALSE)
    /\ tasks[2] = IdleTask
    /\ links = 1
    /\ handler = 1
    /\ close_async_calls[1] = 1
    /\ running
    /\ ~shutdown

====
